---- MODULE Spec2Model ----
(***************************************************************************)
(* The reason-act agent loop of W2025/Tutorials/T9/T9_SimpleAgent.ipynb:   *)
(* ReActAgent (conversation state), the two tools model_memory and         *)
(* apply_conversion, the ACTION_PATTERN parser and the query loop.         *)
(*                                                                         *)
(* Text is modelled as TLA+ strings, read character by character with      *)
(* SubSeq, so that parsing, lower-casing, splitting and formatting are     *)
(* computed as the Python code computes them.  The recursive helpers are   *)
(* functions on STRING rather than operators: a function is applied to the *)
(* value of its argument, which keeps their evaluation linear also where   *)
(* TLC evaluates ENABLED.                                                  *)
(***************************************************************************)
EXTENDS Integers, Sequences, FiniteSets, TLC

VARIABLES
    pc,           \* position of query(): LOOP, AWAITING_MODEL, APPENDING, PARSING,
                  \* DISPATCHING, or terminal ANSWERED / EXHAUSTED / RAISED
    messages,     \* agent.state.messages
    question,     \* argument of query
    max_turns,    \* argument of query
    turn,         \* number of loop iterations begun so far (the for counter)
    next_prompt,  \* local of query
    result,       \* local of query: the text agent(next_prompt) returned
    actions,      \* local of query: the list of regex matches (their groups)
    error,        \* the exception that left query, the empty string when none
    returned,     \* the value query returned, <<>> before it returns
    collab,       \* environment: which collaborator answers (see Completions)
    modelCalls,   \* history: how many times the collaborator was called
    calls,        \* history: the handler invocations, in order
    known_actions,\* the module-level KNOWN_ACTIONS: the names registered
    requests,     \* history: the messages argument of every collaborator call
    parked        \* another query of the same process, not running now: its
                  \* locals and its agent, NoSession when there is none

vars == <<pc, messages, question, max_turns, turn, next_prompt, result,
          actions, error, returned, collab, modelCalls, calls, known_actions,
          requests, parked>>

(***************************************************************************)
(* Bounds of the model.                                                    *)
(***************************************************************************)
MaxTurns == 3        \* largest max_turns argument explored by Spec
MaxUpper == 2        \* most letters upper-cased in a unit key (SpecMemory)
MaxFields == 4       \* most comma-separated fields of an argument (SpecConv)
MaxMessages == 2     \* most add_message calls on one agent (SpecAgent)

DefaultMaxTurns == 5 \* def query(question, max_turns: int = 5)

(***************************************************************************)
(* Characters and strings.                                                 *)
(***************************************************************************)
Char(s, i) == SubSeq(s, i, i)

LowerLetters == "abcdefghijklmnopqrstuvwxyz"
UpperLetters == "ABCDEFGHIJKLMNOPQRSTUVWXYZ"
Digits == "0123456789"

CharsOf(s) == { Char(s, i) : i \in 1..Len(s) }

\* The 1-based position of character c in alphabet s, 0 when absent.
IndexIn(s, c) ==
    IF c \in CharsOf(s) THEN CHOOSE i \in 1..Len(s) : Char(s, i) = c ELSE 0

\* str.lower() on one character (ASCII letters; every other character of the
\* modelled alphabet has no lower-case mapping and stays as it is).
LowerChar(c) ==
    IF c \in CharsOf(UpperLetters) THEN Char(LowerLetters, IndexIn(UpperLetters, c)) ELSE c

lower[s \in STRING] ==
    IF s = "" THEN "" ELSE LowerChar(Char(s, 1)) \o lower[SubSeq(s, 2, Len(s))]

\* The position of the first occurrence of one-character c in s at or after
\* position i, Len(s)+1 when there is none.
FindChar(s, c, i) ==
    IF \E j \in i..Len(s) : Char(s, j) = c
    THEN CHOOSE j \in i..Len(s) :
            Char(s, j) = c /\ \A k \in i..(j - 1) : Char(s, k) # c
    ELSE Len(s) + 1

\* str.split(sep) for a one-character separator: always at least one field.
split[s \in STRING, sep \in STRING] ==
    LET k == FindChar(s, sep, 1)
    IN  IF k > Len(s) THEN <<s>>
        ELSE <<SubSeq(s, 1, k - 1)>> \o split[SubSeq(s, k + 1, Len(s)), sep]

\* Python's whitespace for str.strip() and float(), within the alphabet.
Whitespace == {" ", "\t", "\n", "\r"}

lstrip[s \in STRING] ==
    IF s # "" /\ Char(s, 1) \in Whitespace THEN lstrip[SubSeq(s, 2, Len(s))] ELSE s

rstrip[s \in STRING] ==
    IF s # "" /\ Char(s, Len(s)) \in Whitespace
    THEN rstrip[SubSeq(s, 1, Len(s) - 1)] ELSE s

strip[s \in STRING] == rstrip[lstrip[s]]

StartsWith(s, p) == Len(s) >= Len(p) /\ SubSeq(s, 1, Len(p)) = p

(***************************************************************************)
(* ACTION_PATTERN, the compiled action grammar, and its match().           *)
(***************************************************************************)
\* \w for the characters of the modelled alphabet.  The pattern is a str
\* pattern compiled without re.ASCII, so \w is every Unicode word character:
\* of the alphabet, the ASCII letters, the digits, the underscore and the
\* letters beyond ASCII.
NonAsciiLetters == "é"

WordChars ==
    CharsOf(LowerLetters) \cup CharsOf(UpperLetters) \cup CharsOf(Digits) \cup {"_"}
        \cup CharsOf(NonAsciiLetters)

\* The end of the maximal run of \w characters of s starting at position i
\* (i - 1 when the run is empty).
WordRunEnd[s \in STRING, i \in Nat] ==
    IF i <= Len(s) /\ Char(s, i) \in WordChars THEN WordRunEnd[s, i + 1] ELSE i - 1

ActionMarker == "Action: "

NoMatch == <<>>

\* ACTION_PATTERN.match(a): the groups <<name, argument>>, or NoMatch.
\* \w+ is greedy and the character after it must be a colon, which is not a
\* word character, so only the maximal run can match.  The dot does not match
\* a newline and the dollar matches at the end or before a final newline.
ACTION_PATTERN_match[a \in STRING] ==
    IF ~StartsWith(a, ActionMarker) THEN NoMatch
    ELSE LET b == Len(ActionMarker) + 1
             e == WordRunEnd[a, b]
         IN  IF e < b \/ SubSeq(a, e + 1, IF e + 2 <= Len(a) THEN e + 2 ELSE Len(a)) # ": "
             THEN NoMatch
             ELSE LET rest == SubSeq(a, e + 3, Len(a))
                      nl == FindChar(rest, "\n", 1)
                  IN  IF nl > Len(rest) THEN <<SubSeq(a, b, e), rest>>
                      ELSE IF nl = Len(rest)
                           THEN <<SubSeq(a, b, e), SubSeq(rest, 1, nl - 1)>>
                           ELSE NoMatch

SelectMatches(ms) == SelectSeq(ms, LAMBDA m : m # NoMatch)

\* actions = [ACTION_PATTERN.match(a) for a in result.split(newline)
\*            if ACTION_PATTERN.match(a)]
\* Mutant: the matches in the reverse of line order.
FindActions_LastFirst(text) ==
    LET ms == SelectMatches([i \in 1..Len(split[text, "\n"]) |->
                                ACTION_PATTERN_match[split[text, "\n"][i]]])
    IN  [i \in 1..Len(ms) |-> ms[Len(ms) + 1 - i]]

MatchLines[lines \in Seq(STRING)] ==
    [i \in 1..Len(lines) |-> ACTION_PATTERN_match[lines[i]]]

FindActions(text) == SelectMatches(MatchLines[split[text, "\n"]])

(***************************************************************************)
(* Tools.                                                                  *)
(***************************************************************************)
rates ==
    [u \in {"meters to feet", "kilometers to miles", "kilograms to pounds",
            "celsius to fahrenheit"} |->
        CASE u = "meters to feet" -> "3.28084"
          [] u = "kilometers to miles" -> "0.621371"
          [] u = "kilograms to pounds" -> "2.20462"
          [] u = "celsius to fahrenheit" -> "9/5,32"]

NotFoundText(unit) == "No conversion rate found for " \o unit

\* A handler outcome: either a returned string or a raised exception.
Returns(s) == [raised |-> "", value |-> s]
Raises(e) == [raised |-> e, value |-> ""]

\* Mutant: the lookup without lower().
model_memory_CaseSensitive(unit) ==
    IF unit \in DOMAIN rates THEN Returns(rates[unit]) ELSE Returns(NotFoundText(unit))

model_memory(unit) ==
    IF lower[unit] \in DOMAIN rates
    THEN Returns(rates[lower[unit]])
    ELSE Returns(NotFoundText(unit))

(***************************************************************************)
(* Numbers.  A Python float is modelled by the exact rational n/d it was   *)
(* written as; the products and sums of apply_conversion are exact here.   *)
(* A double differs from the exact value only far below the second         *)
(* decimal, so the two agree on what .2f prints unless the exact value is  *)
(* a rounding tie that is not representable in binary; the bounded inputs  *)
(* contain no such tie.                                                    *)
(***************************************************************************)
Num(n, d) == [n |-> n, d |-> d]

Pow10[k \in Nat] == IF k = 0 THEN 1 ELSE 10 * Pow10[k - 1]

AllDigits[s \in STRING] == \A i \in 1..Len(s) : Char(s, i) \in CharsOf(Digits)

DigitsVal[s \in STRING] ==
    IF s = "" THEN 0
    ELSE 10 * DigitsVal[SubSeq(s, 1, Len(s) - 1)] + (IndexIn(Digits, Char(s, Len(s))) - 1)

NatToStr[n \in Nat] ==
    IF n < 10 THEN Char(Digits, n + 1)
    ELSE NatToStr[n \div 10] \o Char(Digits, (n % 10) + 1)

Abs(x) == IF x < 0 THEN -x ELSE x

\* An optional sign followed by digits[.digits] or .digits, as a record
\* [ok, n, d]; the text is already stripped.
DecimalLiteral[t \in STRING] ==
    LET signed == t # "" /\ Char(t, 1) \in {"+", "-"}
        sgn == IF signed /\ Char(t, 1) = "-" THEN -1 ELSE 1
        u == IF signed THEN SubSeq(t, 2, Len(t)) ELSE t
        k == FindChar(u, ".", 1)
        ip == SubSeq(u, 1, k - 1)
        fp == SubSeq(u, k + 1, Len(u))
    IN  IF AllDigits[ip] /\ AllDigits[fp] /\ (ip # "" \/ fp # "")
        THEN [ok |-> TRUE, n |-> sgn * DigitsVal[ip \o fp], d |-> Pow10[Len(fp)]]
        ELSE [ok |-> FALSE, n |-> 0, d |-> 1]

\* float(s): surrounding whitespace is ignored; ok = FALSE stands for the
\* ValueError.  Exponents, underscores, inf and nan are outside the modelled
\* alphabet of inputs.
float(s) == DecimalLiteral[strip[s]]

\* repr of a float, as f-string {num} prints it: the integer part, a point
\* and the fraction without trailing zeros (at least one digit).  Valid for
\* 0 and for magnitudes in [1e-4, 1e16), where repr uses no exponent.
TrimZeros[f \in STRING] ==
    IF Len(f) > 1 /\ Char(f, Len(f)) = "0" THEN TrimZeros[SubSeq(f, 1, Len(f) - 1)] ELSE f

PadLeft[s \in STRING, w \in Nat] == IF Len(s) >= w THEN s ELSE PadLeft["0" \o s, w]

\* The number of decimals of a denominator that is a power of ten.
Decimals[d \in Nat] == IF d <= 1 THEN 0 ELSE 1 + Decimals[d \div 10]

FloatRepr(x) ==
    LET a == Abs(x.n)
        k == Decimals[x.d]
        frac == IF k = 0 THEN "0" ELSE TrimZeros[PadLeft[NatToStr[a % x.d], k]]
    IN  (IF x.n < 0 THEN "-" ELSE "") \o NatToStr[a \div x.d] \o "." \o frac

\* format(result, ".2f"): round to two decimals, ties to even.
\* Mutant: two decimals by truncation instead of rounding.
Format2f_Truncating(x) ==
    LET h == (Abs(x.n) * 100) \div x.d
    IN  (IF x.n < 0 THEN "-" ELSE "") \o NatToStr[h \div 100] \o "."
            \o PadLeft[NatToStr[h % 100], 2]

\* The hundredths of n/d rounded half to even.  (The hundredfold is taken on
\* the denominator when it divides, which keeps the integers small.)
Hundredths[n \in Nat, d \in Nat] ==
    LET a == IF d % 100 = 0 THEN n ELSE n * 100
        b == IF d % 100 = 0 THEN d \div 100 ELSE d
        q == a \div b
        r == a % b
    IN  IF 2 * r > b THEN q + 1
        ELSE IF 2 * r = b /\ q % 2 = 1 THEN q + 1
        ELSE q

TwoDecimals[h \in Nat] == NatToStr[h \div 100] \o "." \o PadLeft[NatToStr[h % 100], 2]

Format2f(x) == (IF x.n < 0 THEN "-" ELSE "") \o TwoDecimals[Hundredths[Abs(x.n), x.d]]

Mul(x, y) == Num(x.n * y.n, x.d * y.d)
Add(x, y) == Num(x.n * y.d + y.n * x.d, x.d * y.d)
Div(x, y) == IF y.n < 0 THEN Num(-(x.n * y.d), x.d * (-y.n)) ELSE Num(x.n * y.d, x.d * y.n)

(***************************************************************************)
(* eval(multiplier.strip()) inside apply_conversion.  The outcome is a     *)
(* record [exc, isnum, n, d]: exc names the exception raised, the empty    *)
(* string when a value came back; isnum tells a number from another value. *)
(* Modelled expressions: literals and names, joined by true division.      *)
(***************************************************************************)
PyKeywords ==
    {"and", "as", "assert", "async", "await", "break", "class", "continue",
     "def", "del", "elif", "else", "except", "finally", "for", "from",
     "global", "if", "import", "in", "is", "lambda", "nonlocal", "not", "or",
     "pass", "raise", "return", "try", "while", "with", "yield"}

\* The locals of apply_conversion that hold a string or a list when eval runs.
NonNumericLocals == {"rate", "params", "multiplier", "offset", "value_str"}

IsIdentifier(t) ==
    /\ t # ""
    /\ Char(t, 1) \notin CharsOf(Digits)
    /\ \A i \in 1..Len(t) : Char(t, i) \in WordChars

\* A Python numeric literal with an optional unary sign: as DecimalLiteral,
\* but an integer literal with a leading zero is a syntax error unless it is
\* all zeros.
PyLiteral[t \in STRING] ==
    LET lit == DecimalLiteral[t]
        u == IF t # "" /\ Char(t, 1) \in {"+", "-"} THEN lstrip[SubSeq(t, 2, Len(t))] ELSE t
        leadingZero == /\ AllDigits[u]
                       /\ Len(u) > 1
                       /\ Char(u, 1) = "0"
                       /\ \E i \in 1..Len(u) : Char(u, i) # "0"
    IN  IF lit.ok /\ ~leadingZero THEN lit ELSE [ok |-> FALSE, n |-> 0, d |-> 1]

EvalValue(x) == [exc |-> "", isnum |-> TRUE, n |-> x.n, d |-> x.d]
EvalOther == [exc |-> "", isnum |-> FALSE, n |-> 0, d |-> 1]
EvalRaises(e) == [exc |-> e, isnum |-> FALSE, n |-> 0, d |-> 1]

\* The position of the last occurrence of one-character c in s at or before
\* position i, 0 when none.
FindLastChar(s, c, i) ==
    IF \E j \in 1..i : Char(s, j) = c
    THEN CHOOSE j \in 1..i :
            Char(s, j) = c /\ \A k \in (j + 1)..i : Char(s, k) # c
    ELSE 0

\* An operand: a literal or a name that is no keyword.
AtomSyntaxOK[t \in STRING] == PyLiteral[t].ok \/ (IsIdentifier(t) /\ t \notin PyKeywords)

\* The expression parses: operands separated by the division operator, which
\* associates to the left.
ExprSyntaxOK[t \in STRING] ==
    LET k == FindLastChar(t, "/", Len(t))
    IN  IF k = 0 THEN AtomSyntaxOK[t]
        ELSE /\ ExprSyntaxOK[strip[SubSeq(t, 1, k - 1)]]
             /\ AtomSyntaxOK[strip[SubSeq(t, k + 1, Len(t))]]

\* Names bound as notebook globals or builtins are outside the modelled
\* inputs; every other unbound name raises NameError.
EvalAtom(t, num) ==
    IF PyLiteral[t].ok THEN EvalValue(PyLiteral[t])
    ELSE IF t = "num" THEN EvalValue(num)
    ELSE IF t \in NonNumericLocals THEN EvalOther
    ELSE EvalRaises("NameError")

\* The value of a / b from the outcomes of a and b, a evaluated first.
EvalDivision(lhs, rhs) ==
    IF lhs.exc # "" THEN lhs
    ELSE IF rhs.exc # "" THEN rhs
    ELSE IF ~(lhs.isnum /\ rhs.isnum) THEN EvalRaises("TypeError")
    ELSE IF rhs.n = 0 THEN EvalRaises("ZeroDivisionError")
    ELSE EvalValue(Div(lhs, rhs))

EvalExpr(t, num) ==
    LET E[u \in STRING] ==
            LET k == FindLastChar(u, "/", Len(u))
            IN  IF k = 0 THEN EvalAtom(u, num)
                ELSE EvalDivision(E[strip[SubSeq(u, 1, k - 1)]],
                                  EvalAtom(strip[SubSeq(u, k + 1, Len(u))], num))
    IN  E[t]

\* eval(t) with the local num bound to the float already parsed: the text is
\* compiled first (SyntaxError), then evaluated.
eval(t, num) ==
    IF ExprSyntaxOK[t] THEN EvalExpr(t, num) ELSE EvalRaises("SyntaxError")

\* Mutant: the pairs of the reverse table the other way round.
unit_map_Swapped ==
    [r \in {"3.28084", "0.621371", "2.20462"} |->
        CASE r = "3.28084" -> <<"feet", "meters">>
          [] r = "0.621371" -> <<"miles", "kilometers">>
          [] r = "2.20462" -> <<"pounds", "kilograms">>]

unit_map ==
    [r \in {"3.28084", "0.621371", "2.20462"} |->
        CASE r = "3.28084" -> <<"meters", "feet">>
          [] r = "0.621371" -> <<"kilometers", "miles">>
          [] r = "2.20462" -> <<"kilograms", "pounds">>]

ErrInvalidCount == "Error: Invalid number of parameters"
ErrValue == "Error: Please provide valid numbers"
ErrSyntax == "Error: Invalid conversion rate format"

\* The 3-field branch: multiplier, offset, value.
ConvertTemperature(params) ==
    LET num == float(strip[params[3]])
        multiplier == eval(strip[params[1]], num)
        offset == float(strip[params[2]])
    IN  IF ~num.ok THEN Returns(ErrValue)
        ELSE IF multiplier.exc = "SyntaxError" THEN Returns(ErrSyntax)
        ELSE IF multiplier.exc # "" THEN Raises(multiplier.exc)
        ELSE IF ~offset.ok THEN Returns(ErrValue)
        ELSE IF ~multiplier.isnum THEN Raises("TypeError")
        ELSE Returns(FloatRepr(num) \o "°C = "
                     \o Format2f(Add(Mul(num, multiplier), offset)) \o "°F")

\* The 2-field branch: rate, value.
ConvertRate(params) ==
    LET rate_str == params[1]
        num == float(strip[params[2]])
        conversion_rate == float(rate_str)
        units == IF rate_str \in DOMAIN unit_map THEN unit_map[rate_str]
                 ELSE <<"units", "units">>
    IN  IF ~num.ok \/ ~conversion_rate.ok THEN Returns(ErrValue)
        ELSE Returns(FloatRepr(num) \o " " \o units[1] \o " = "
                     \o Format2f(Mul(num, conversion_rate)) \o " " \o units[2])

apply_conversion(rate) ==
    LET params == split[rate, ","]
    IN  IF Len(params) = 3 THEN ConvertTemperature(params)
        ELSE IF Len(params) = 2 THEN ConvertRate(params)
        ELSE Returns(ErrInvalidCount)

\* Mutant: the registry also holds the name the system prompt's example uses.
KNOWN_ACTIONS_Stale == {"model_memory", "apply_conversion", "get_conversion_rate"}

KNOWN_ACTIONS == {"model_memory", "apply_conversion"}

\* Mutant: the two names registered with each other's function.
Handler_Crossed(action, action_input) ==
    IF action = "model_memory" THEN apply_conversion(action_input)
    ELSE model_memory(action_input)

\* KNOWN_ACTIONS[action](action_input)
Handler(action, action_input) ==
    IF action = "model_memory" THEN model_memory(action_input)
    ELSE apply_conversion(action_input)

(***************************************************************************)
(* The model collaborator: the completions it may return to its k-th call. *)
(***************************************************************************)
Questions == {"Convert 10 meters to feet", "Convert 20°C to Fahrenheit"}

TurnBudgets == (0 - 1)..MaxTurns

R_Answer == "Thought: I have converted.\n\nAnswer: 10 meters is equal to 32.81 feet"
R_Memory == "Thought: I need the rate.\n\nAction: model_memory: meters to feet\nPAUSE"
R_Convert == "Action: apply_conversion: 3.28084, 10\nPAUSE"
R_Unknown == "Action: get_conversion_rate: kilometers to miles\nPAUSE"
R_MemoryMiss == "Action: model_memory: Furlongs to Feet\nPAUSE"
R_ConvertBad == "Action: apply_conversion: only_one_field\nPAUSE"
R_ConvertRaises == "Action: apply_conversion: a,32,20\nPAUSE"
R_TwoActions == "Action: model_memory: celsius to fahrenheit\nAction: apply_conversion: 9/5,32,20"
R_Indented == "Thought: almost.\n Action: model_memory: meters to feet"

R_UnknownFirst ==
    "Action: get_conversion_rate: meters to feet\nAction: model_memory: meters to feet"

Responses ==
    {R_Answer, R_Memory, R_Convert, R_Unknown, R_MemoryMiss, R_ConvertBad,
     R_ConvertRaises, R_TwoActions, R_Indented, R_UnknownFirst}

(***************************************************************************)
(* The collaborator of SpecMemory asks for model_memory on a unit          *)
(* drawn from the keys of the table in every letter case with at most      *)
(* MaxUpper capitals, in capitals throughout, and from texts that are no   *)
(* key.                                                                    *)
(***************************************************************************)
UpperChar(c) ==
    IF c \in CharsOf(LowerLetters) THEN Char(UpperLetters, IndexIn(LowerLetters, c)) ELSE c

UpperAt(s, i) == SubSeq(s, 1, i - 1) \o UpperChar(Char(s, i)) \o SubSeq(s, i + 1, Len(s))

upper[s \in STRING] ==
    IF s = "" THEN "" ELSE UpperChar(Char(s, 1)) \o upper[SubSeq(s, 2, Len(s))]

RECURSIVE Capitalised(_, _)
Capitalised(key, k) ==
    IF k = 0 THEN {key}
    ELSE LET less == Capitalised(key, k - 1)
         IN  less \cup { UpperAt(v, i) : v \in less, i \in 1..Len(key) }

UnitKeys ==
    {"meters to feet", "kilometers to miles", "kilograms to pounds",
     "celsius to fahrenheit"}

OtherUnits ==
    {"", " meters to feet", "meters to feet ", "meters  to feet", "meters to fee",
     "feet to meters", "Furlongs to Feet", "METERS", "meters_to_feet", "3.28084",
     "Celsius To Kelvin"}

UnitInputs ==
    UNION { Capitalised(key, MaxUpper) \cup {upper[key]} : key \in UnitKeys }
        \cup OtherUnits

ActionText(name, arg) == ActionMarker \o name \o ": " \o arg \o "\nPAUSE"

MemoryTexts ==
    { ActionText("model_memory", u) : u \in UnitInputs }
        \cup {R_Answer, R_Unknown, R_ConvertRaises}

(***************************************************************************)
(* The collaborator of SpecConv asks for apply_conversion on an            *)
(* argument of one to MaxFields fields.  Arguments of up to three fields   *)
(* take every field from ConvFields, with at most one field of five or     *)
(* more decimals so that the exact products stay within the integers of    *)
(* the checker; longer arguments take their fields from ExtraFields.       *)
(***************************************************************************)
ConvFields ==
    {"3.28084", "0.621371", "2.20462", "1.5", "9/5", "32", "10", " 20", "a", "",
     "1/0", "not", "number", "only_one_field", "rate", "007"}

PreciseFields == {"3.28084", "0.621371", "2.20462"}

ExtraFields == {"1", "a"}

RECURSIVE Join(_)
Join(fs) == IF Len(fs) = 1 THEN fs[1] ELSE fs[1] \o "," \o Join(Tail(fs))

Tuples(fields, n) == [1..n -> fields]

ConvInputs ==
    { Join(fs) : fs \in { t \in Tuples(ConvFields, 1) \cup Tuples(ConvFields, 2)
                                \cup Tuples(ConvFields, 3) :
                            Cardinality({ i \in DOMAIN t : t[i] \in PreciseFields }) <= 1 } }
        \cup { Join(fs) : fs \in UNION { Tuples(ExtraFields, n) : n \in 4..MaxFields } }
        \cup {"3.28084, 10", "3.28084,5", "9/5,32,20", "9/5, 32, 20", "not,a,number",
              " 3.28084,10", "2.204620,10", "0.621371 ,10"}

ConvTexts ==
    { ActionText("apply_conversion", a) : a \in ConvInputs } \cup {R_Answer, R_Unknown}

(***************************************************************************)
(* The collaborator of SpecParse returns one line, alone or between a      *)
(* thought and PAUSE, put together from a marker, a name, a separator and  *)
(* an argument, well-formed or not.                                        *)
(***************************************************************************)
LineMarkers == {"Action: ", " Action: ", "action: ", "Action:", "Action:  "}

LineNames == {"model_memory", "apply_conversion", "x1_Y", "", "café", "a-b", "a b"}

LineSeparators == {": ", ":", " : ", ":  "}

LineArguments == {"meters to feet", "", "a: b ", "a,32,20", "x \t"}

ActionLines ==
    { m \o n \o p \o a :
        m \in LineMarkers, n \in LineNames, p \in LineSeparators, a \in LineArguments }

LineTexts ==
    ActionLines \cup { "Thought: next.\n" \o l \o "\nPAUSE" : l \in ActionLines }

(***************************************************************************)
(* The recorded sessions of the notebook: the question of each example and *)
(* the completions printed in its output, in order.  Example 4 was         *)
(* recorded with an earlier registry (it asks for get_conversion_rate).    *)
(* The last session is not recorded: its collaborator passes a name where  *)
(* apply_conversion expects a number.                                      *)
(***************************************************************************)
Example1 ==
    [question |-> "Convert 10 meters to feet",
     script |-> <<
        "Thought: This is a length conversion from meters to feet. First, I need to get the conversion rate for meters to feet, which will allow me to convert 10 meters to feet.\n\nAction: model_memory: meters to feet\nPAUSE",
        "Thought: Now that I have the conversion rate of 3.28084, I can apply this conversion rate to 10 meters to find the equivalent length in feet.\n\nAction: apply_conversion: 3.28084, 10\nPAUSE",
        "Thought: I have now successfully converted 10 meters to feet using the conversion rate.\n\nAnswer: 10 meters is equal to 32.81 feet">>]

Example2 ==
    [question |-> "Convert 20°C to Fahrenheit",
     script |-> <<
        "Thought: This is a temperature conversion from Celsius to Fahrenheit. First, I need to get the conversion formula, which is typically a multiplication and addition operation. I will use the model_memory action to retrieve this formula.\n\nAction: model_memory: celsius to fahrenheit\nPAUSE",
        "Thought: Now I can apply this formula to 20°C. The formula is (9/5)*C + 32, where C is the temperature in Celsius. I will use the apply_conversion action to perform this calculation.\n\nAction: apply_conversion: 9/5, 32, 20\nPAUSE",
        "Thought: The conversion has been successfully applied, and I have the result. Now, I can provide the final answer.\n\nAnswer: 20.0°C is equal to 68.00°F">>]

Example3 ==
    [question |-> "Convert 10 kilograms to pounds",
     script |-> <<
        "Thought: This is a weight conversion from kilograms to pounds. First, I need to get the conversion rate\nAction: model_memory: kilograms to pounds\nPAUSE",
        "Thought: Now I can apply this conversion rate to 10 kilograms\nAction: apply_conversion: 2.20462, 10\nPAUSE",
        "Thought: The conversion of 10 kilograms to pounds has been successfully calculated\nAnswer: 10 kilograms is equal to 22.05 pounds">>]

Example4 ==
    [question |-> "Convert 3 kilometers to miles",
     script |-> <<
        "Thought: This is a length conversion from kilometers to miles. First, I need to get the conversion rate for kilometers to miles.\n\nAction: get_conversion_rate: kilometers to miles\nPAUSE">>]

NameSession ==
    [question |-> "Convert 20 degrees to Fahrenheit",
     script |-> <<
        "Thought: I need the formula.\n\nAction: model_memory: degrees to fahrenheit\nPAUSE",
        "Thought: I will apply the usual formula.\n\nAction: apply_conversion: multiplier_unknown, 32, 20\nPAUSE">>]

Sessions ==
    [s \in {"example1", "example2", "example3", "example4", "names"} |->
        CASE s = "example1" -> Example1
          [] s = "example2" -> Example2
          [] s = "example3" -> Example3
          [] s = "example4" -> Example4
          [] s = "names" -> NameSession]

\* The k-th completion of a session (its last one again when it is asked
\* for more).
Scripted(script, k) == {script[IF k <= Len(script) THEN k ELSE Len(script)]}

\* The completions collaborator c may return to its k-th call.
Completions(c, k) ==
    CASE c = "any" -> Responses
      [] c = "memory" -> MemoryTexts
      [] c = "conv" -> ConvTexts
      [] c = "lines" -> LineTexts
      [] OTHER -> Scripted(Sessions[c].script, k)

(***************************************************************************)
(* ReActAgent: the conversation state.                                     *)
(***************************************************************************)
\* create_agent(): the tutorial prompt (abridged to its first sentence; the
\* loop never reads it).
SystemPrompt == "You run in a loop of Thought, Action, PAUSE, Observation."

Message(role, content) == [role |-> role, content |-> content]

\* ReActAgent.__init__
NewAgentMessages(system_prompt) == <<Message("system", system_prompt)>>

\* Mutant: the new message goes to the front of the list.
add_message_Prepends(msgs, role, content) == <<Message(role, content)>> \o msgs

\* Mutant: a later user message takes the place of the first one.
add_message_Overwrites(msgs, role, content) ==
    IF Len(msgs) >= 3 /\ role = "user"
    THEN [msgs EXCEPT ![2] = Message(role, content)]
    ELSE Append(msgs, Message(role, content))

\* ReActAgent.add_message
add_message(msgs, role, content) == Append(msgs, Message(role, content))

(***************************************************************************)
(* query(question, max_turns).                                             *)
(***************************************************************************)
\* Mutant: the loop bound off by one (one iteration too many).
LoopContinues_OffByOne(t, n) == t <= n

\* Mutant: the loop as a while True, without a turn budget.
LoopContinues_Unbounded(t, n) == t >= 0

\* Mutant: the body runs once before the budget is looked at.
LoopContinues_DoWhile(t, n) == t = 0 \/ t < n

\* for turn in range(max_turns): is there another iteration?
LoopContinues(t, n) == t < n

\* Mutant: the observation cut to its first twenty characters.
ObservationPrompt_Truncated(observation) ==
    "Observation: " \o SubSeq(observation, 1, IF Len(observation) < 20 THEN Len(observation) ELSE 20)

\* next_prompt = f-string Observation: {observation}
ObservationPrompt(observation) == "Observation: " \o observation

\* The exceptions the collaborator's client raises (rate limit, network).
ModelErrors == {"RateLimitError", "APIConnectionError"}

Terminal == {"ANSWERED", "EXHAUSTED", "RAISED"}

\* The state of query after agent = create_agent(); next_prompt = question.
QueryInit(q, n, c) ==
    /\ question = q
    /\ max_turns = n
    /\ collab = c
    /\ pc = "LOOP"
    /\ messages = NewAgentMessages(SystemPrompt)
    /\ turn = 0
    /\ next_prompt = q
    /\ result = ""
    /\ actions = <<>>
    /\ error = ""
    /\ returned = <<>>
    /\ modelCalls = 0
    /\ calls = <<>>
    /\ requests = <<>>

\* The module-level state of the process that runs query: the registry as
\* the notebook cell defines it, and the other query p (NoSession: none).
NoSession == [pc |-> "NONE"]

ProcessInit(p) ==
    /\ known_actions = KNOWN_ACTIONS
    /\ parked = p

\* Mutant: every iteration calls agent(question), the observation unused.
BeginTurn_RepeatsQuestion ==
    /\ pc = "LOOP"
    /\ LoopContinues(turn, max_turns)
    /\ turn' = turn + 1
    /\ messages' = add_message(messages, "user", question)
    /\ pc' = "AWAITING_MODEL"
    /\ UNCHANGED <<question, max_turns, next_prompt, result, actions, error,
                   returned, collab, modelCalls, calls,
                   known_actions, parked, requests>>

\* The for statement starts an iteration; agent(next_prompt) appends the
\* user message.
BeginTurn ==
    /\ pc = "LOOP"
    /\ LoopContinues(turn, max_turns)
    /\ turn' = turn + 1
    /\ messages' = add_message(messages, "user", next_prompt)
    /\ pc' = "AWAITING_MODEL"
    /\ UNCHANGED <<question, max_turns, next_prompt, result, actions, error,
                   returned, collab, modelCalls, calls,
                   known_actions, parked, requests>>

\* Mutant: running out of turns raises instead of returning.
Exhausted_Raises ==
    /\ pc = "LOOP"
    /\ ~LoopContinues(turn, max_turns)
    /\ pc' = "RAISED"
    /\ error' = "RuntimeError"
    /\ UNCHANGED <<messages, question, max_turns, turn, next_prompt, result,
                   actions, returned, collab, modelCalls, calls,
                   known_actions, parked, requests>>

\* The for statement is exhausted: return agent.state.messages.
Exhausted ==
    /\ pc = "LOOP"
    /\ ~LoopContinues(turn, max_turns)
    /\ pc' = "EXHAUSTED"
    /\ returned' = messages
    /\ UNCHANGED <<messages, question, max_turns, turn, next_prompt, result,
                   actions, error, collab, modelCalls, calls,
                   known_actions, parked, requests>>

\* Mutant: the collaborator is sent the new user message alone.
Execute_SendsLastOnly ==
    /\ pc = "AWAITING_MODEL"
    /\ \E r \in Completions(collab, modelCalls + 1) : result' = r
    /\ modelCalls' = modelCalls + 1
    /\ requests' = Append(requests, <<messages[Len(messages)]>>)
    /\ pc' = "APPENDING"
    /\ UNCHANGED <<messages, question, max_turns, turn, next_prompt, actions,
                   error, returned, collab, calls,
                   known_actions, parked>>

\* ReActAgent.execute returns a completion.
Execute ==
    /\ pc = "AWAITING_MODEL"
    /\ \E r \in Completions(collab, modelCalls + 1) : result' = r
    /\ modelCalls' = modelCalls + 1
    /\ requests' = Append(requests, messages)
    /\ pc' = "APPENDING"
    /\ UNCHANGED <<messages, question, max_turns, turn, next_prompt, actions,
                   error, returned, collab, calls,
                   known_actions, parked>>

\* Mutant: a failed collaborator call is caught and issued again.
ExecuteFails_Retries ==
    /\ pc = "AWAITING_MODEL"
    /\ modelCalls' = modelCalls + 1
    /\ UNCHANGED <<pc, messages, question, max_turns, turn, next_prompt, result,
                   actions, error, returned, collab, calls,
                   known_actions, parked, requests>>

\* ReActAgent.execute raises: nothing in __call__ or query catches it.
ExecuteFails ==
    /\ pc = "AWAITING_MODEL"
    /\ \E e \in ModelErrors : error' = e
    /\ modelCalls' = modelCalls + 1
    /\ requests' = Append(requests, messages)
    /\ pc' = "RAISED"
    /\ UNCHANGED <<messages, question, max_turns, turn, next_prompt, result,
                   actions, returned, collab, calls,
                   known_actions, parked>>

\* Mutant: the response is appended under the role of the prompt.
AppendAssistant_AsUser ==
    /\ pc = "APPENDING"
    /\ messages' = add_message(messages, "user", result)
    /\ pc' = "PARSING"
    /\ UNCHANGED <<question, max_turns, turn, next_prompt, result, actions,
                   error, returned, collab, modelCalls, calls,
                   known_actions, parked, requests>>

\* ReActAgent.__call__ appends the assistant message and returns.
AppendAssistant ==
    /\ pc = "APPENDING"
    /\ messages' = add_message(messages, "assistant", result)
    /\ pc' = "PARSING"
    /\ UNCHANGED <<question, max_turns, turn, next_prompt, result, actions,
                   error, returned, collab, modelCalls, calls,
                   known_actions, parked, requests>>

\* The list comprehension over the lines of the response.
Parse ==
    /\ pc = "PARSING"
    /\ actions' = FindActions(result)
    /\ pc' = "PARSED"
    /\ UNCHANGED <<messages, question, max_turns, turn, next_prompt, result,
                   error, returned, collab, modelCalls, calls,
                   known_actions, parked, requests>>

\* Mutant: the else branch does not break, the loop goes on.
Answered_Continues ==
    /\ pc = "PARSED"
    /\ actions = <<>>
    /\ pc' = "LOOP"
    /\ UNCHANGED <<messages, question, max_turns, turn, next_prompt, result,
                   actions, error, returned, collab, modelCalls, calls,
                   known_actions, parked, requests>>

\* if actions: ... else: break, then return agent.state.messages.
Answered ==
    /\ pc = "PARSED"
    /\ actions = <<>>
    /\ pc' = "ANSWERED"
    /\ returned' = messages
    /\ UNCHANGED <<messages, question, max_turns, turn, next_prompt, result,
                   actions, error, collab, modelCalls, calls,
                   known_actions, parked, requests>>

\* if action not in KNOWN_ACTIONS: raise ValueError
UnknownAction ==
    /\ pc = "PARSED"
    /\ actions # <<>>
    /\ actions[1][1] \notin known_actions
    /\ pc' = "RAISED"
    /\ error' = "ValueError"
    /\ UNCHANGED <<messages, question, max_turns, turn, next_prompt, result,
                   actions, returned, collab, modelCalls, calls,
                   known_actions, parked, requests>>

\* Mutant: the next iteration starts while the handler has not been called.
Lookup_Overlaps ==
    /\ pc = "PARSED"
    /\ actions # <<>>
    /\ actions[1][1] \in known_actions
    /\ pc' = "LOOP"
    /\ UNCHANGED <<messages, question, max_turns, turn, next_prompt, result,
                   actions, error, returned, collab, modelCalls, calls,
                   known_actions, parked, requests>>

\* The action is known: go on to call its handler.
Lookup ==
    /\ pc = "PARSED"
    /\ actions # <<>>
    /\ actions[1][1] \in known_actions
    /\ pc' = "DISPATCHING"
    /\ UNCHANGED <<messages, question, max_turns, turn, next_prompt, result,
                   actions, error, returned, collab, modelCalls, calls,
                   known_actions, parked, requests>>

\* Mutant: an observation that reports an error aborts the query.
Dispatch_AbortsOnError ==
    /\ pc = "DISPATCHING"
    /\ LET out == Handler(actions[1][1], actions[1][2])
           bad == StartsWith(out.value, "Error") \/ StartsWith(out.value, "No conversion")
       IN  /\ out.raised = ""
           /\ calls' = Append(calls, [turn |-> turn, name |-> actions[1][1],
                                      arg |-> actions[1][2], raised |-> "",
                                      value |-> out.value])
           /\ next_prompt' = ObservationPrompt(out.value)
           /\ pc' = IF bad THEN "RAISED" ELSE "LOOP"
           /\ error' = IF bad THEN "RuntimeError" ELSE error
    /\ UNCHANGED <<messages, question, max_turns, turn, result, actions,
                   returned, collab, modelCalls,
                   known_actions, parked, requests>>

Invocation(t, name, arg, out) ==
    [turn |-> t, name |-> name, arg |-> arg, raised |-> out.raised, value |-> out.value]

\* observation = KNOWN_ACTIONS[action](action_input); the handler returns
\* and the observation becomes the next prompt.
Dispatch ==
    /\ pc = "DISPATCHING"
    /\ LET out == Handler(actions[1][1], actions[1][2])
       IN  /\ out.raised = ""
           /\ calls' = Append(calls, Invocation(turn, actions[1][1], actions[1][2], out))
           /\ next_prompt' = ObservationPrompt(out.value)
    /\ pc' = "LOOP"
    /\ UNCHANGED <<messages, question, max_turns, turn, result, actions, error,
                   returned, collab, modelCalls,
                   known_actions, parked, requests>>

\* The handler raises: query has no except clause, the exception leaves it.
DispatchRaises ==
    /\ pc = "DISPATCHING"
    /\ LET out == Handler(actions[1][1], actions[1][2])
       IN  /\ out.raised # ""
           /\ calls' = Append(calls, Invocation(turn, actions[1][1], actions[1][2], out))
           /\ error' = out.raised
    /\ pc' = "RAISED"
    /\ UNCHANGED <<messages, question, max_turns, turn, next_prompt, result,
                   actions, returned, collab, modelCalls,
                   known_actions, parked, requests>>

Next ==
    \/ BeginTurn
    \/ Exhausted
    \/ Execute
    \/ ExecuteFails
    \/ AppendAssistant
    \/ Parse
    \/ Answered
    \/ UnknownAction
    \/ Lookup
    \/ Dispatch
    \/ DispatchRaises

(***************************************************************************)
(* Spec: every max_turns up to MaxTurns, the collaborator free to return   *)
(* any of a fixed set of completions at every call.                        *)
(***************************************************************************)
Init ==
    /\ \E q \in Questions, n \in TurnBudgets : QueryInit(q, n, "any")
    /\ ProcessInit(NoSession)

Spec == Init /\ [][Next]_vars

\* Every collaborator call and every handler call comes back (with a value
\* or with an exception) and the interpreter goes on: a step that can be
\* taken is taken.
FairSpec == Spec /\ WF_vars(Next)


\* One turn, the collaborator asking for model_memory.
InitMemory ==
    QueryInit("Convert 10 meters to feet", 1, "memory") /\ ProcessInit(NoSession)

SpecMemory == InitMemory /\ [][Next]_vars

\* One turn, the collaborator asking for apply_conversion.
InitConv ==
    QueryInit("Convert 10 meters to feet", 1, "conv") /\ ProcessInit(NoSession)

SpecConv == InitConv /\ [][Next]_vars

\* One turn, the collaborator returning one line of any shape.
InitParse ==
    QueryInit("Convert 10 meters to feet", 1, "lines") /\ ProcessInit(NoSession)

SpecParse == InitParse /\ [][Next]_vars

\* The recorded sessions, for every turn budget around the default.
TranscriptBudgets == (0 - 1)..(DefaultMaxTurns + 1)

InitTranscript ==
    /\ \E c \in DOMAIN Sessions, n \in TranscriptBudgets :
            QueryInit(Sessions[c].question, n, c)
    /\ ProcessInit(NoSession)

SpecTranscript == InitTranscript /\ [][Next]_vars

\* The interpreter runs query to its end: a step that can be taken is taken.
FairTranscript == SpecTranscript /\ WF_vars(Next)

(***************************************************************************)
(* Two queries in one process, one after the other or interleaved (two     *)
(* threads calling query): the variables above are the running query, the  *)
(* other one is parked.  Each call of query made its own agent with        *)
(* create_agent(), and each has its own locals; KNOWN_ACTIONS is the one   *)
(* module-level object both read.                                          *)
(***************************************************************************)
\* The locals and the agent of the running query.
Running ==
    [pc |-> pc, messages |-> messages, question |-> question,
     max_turns |-> max_turns, turn |-> turn, next_prompt |-> next_prompt,
     result |-> result, actions |-> actions, error |-> error,
     returned |-> returned, collab |-> collab, modelCalls |-> modelCalls,
     calls |-> calls, requests |-> requests]

\* A query that has been called and has not started its loop:
\* agent = create_agent(); next_prompt = question.
NewQuery(q, n, c) ==
    [pc |-> "LOOP", messages |-> NewAgentMessages(SystemPrompt), question |-> q,
     max_turns |-> n, turn |-> 0, next_prompt |-> q, result |-> "",
     actions |-> <<>>, error |-> "", returned |-> <<>>, collab |-> c,
     modelCalls |-> 0, calls |-> <<>>, requests |-> <<>>]

\* Mutant: one module-level agent serves every query, so the message list
\* stays where it is when the other query takes over.
Switch_SharedAgent ==
    /\ parked # NoSession
    /\ parked' = Running
    /\ pc' = parked.pc
    /\ question' = parked.question
    /\ max_turns' = parked.max_turns
    /\ turn' = parked.turn
    /\ next_prompt' = parked.next_prompt
    /\ result' = parked.result
    /\ actions' = parked.actions
    /\ error' = parked.error
    /\ returned' = parked.returned
    /\ collab' = parked.collab
    /\ modelCalls' = parked.modelCalls
    /\ calls' = parked.calls
    /\ requests' = parked.requests
    /\ UNCHANGED <<messages, known_actions>>

\* The other query runs on (or starts, or is found finished): each query
\* finds its own locals and its own agent.state.messages again.
Switch ==
    /\ parked # NoSession
    /\ parked' = Running
    /\ pc' = parked.pc
    /\ messages' = parked.messages
    /\ question' = parked.question
    /\ max_turns' = parked.max_turns
    /\ turn' = parked.turn
    /\ next_prompt' = parked.next_prompt
    /\ result' = parked.result
    /\ actions' = parked.actions
    /\ error' = parked.error
    /\ returned' = parked.returned
    /\ collab' = parked.collab
    /\ modelCalls' = parked.modelCalls
    /\ calls' = parked.calls
    /\ requests' = parked.requests
    /\ UNCHANGED known_actions

NextSessions == Next \/ Switch

\* The pairs of recorded sessions run together, and their turn budgets.
SessionPairs ==
    {<<"example1", "example2">>, <<"example3", "names">>, <<"example4", "example1">>}

PairBudgets == {1, MaxTurns}

InitSessions ==
    \E cs \in SessionPairs, n1 \in PairBudgets, n2 \in PairBudgets :
        /\ QueryInit(Sessions[cs[1]].question, n1, cs[1])
        /\ ProcessInit(NewQuery(Sessions[cs[2]].question, n2, cs[2]))

SpecSessions == InitSessions /\ [][NextSessions]_vars

(***************************************************************************)
(* The agent used directly: a caller makes one with create_agent() and     *)
(* calls add_message on it with a role and a content of its choice, no     *)
(* query running.                                                          *)
(***************************************************************************)
RoleInputs == {"system", "user", "assistant", "tool", "User", ""}

ContentInputs == {"Convert 10 meters to feet", "Observation: 3.28084", ""}

InitAgent ==
    /\ pc = "IDLE"
    /\ messages = NewAgentMessages(SystemPrompt)
    /\ question = ""
    /\ max_turns = 0
    /\ collab = "any"
    /\ turn = 0
    /\ next_prompt = ""
    /\ result = ""
    /\ actions = <<>>
    /\ error = ""
    /\ returned = <<>>
    /\ modelCalls = 0
    /\ calls = <<>>
    /\ requests = <<>>
    /\ ProcessInit(NoSession)

\* agent.add_message(role, content), called from outside query.
AddMessageCall ==
    /\ pc = "IDLE"
    /\ Len(messages) <= MaxMessages
    /\ \E role \in RoleInputs, content \in ContentInputs :
          messages' = add_message(messages, role, content)
    /\ UNCHANGED <<pc, question, max_turns, turn, next_prompt, result, actions,
                   error, returned, collab, modelCalls, calls, known_actions,
                   requests, parked>>

NextAgent == AddMessageCall

SpecAgent == InitAgent /\ [][NextAgent]_vars

(***************************************************************************)
(* Properties.                                                             *)
(***************************************************************************)
Last(seq) == seq[Len(seq)]

Contains(s, sub) ==
    \E i \in 1..(Len(s) - Len(sub) + 1) : SubSeq(s, i, i + Len(sub) - 1) = sub

\* The action grammar, stated on one line: the marker, a name of one or
\* more word characters, a colon, a space and the argument.  (Which
\* characters a name may have is the subject of C15; here they are the
\* parser's.)
GrammarLine(l) ==
    \E n \in 1..Len(l) :
        /\ StartsWith(l, "Action: ")
        /\ Len(l) >= 8 + n + 2
        /\ \A i \in 9..(8 + n) : Char(l, i) \in WordChars
        /\ SubSeq(l, 9 + n, 10 + n) = ": "

\* Some line of the text matches the grammar: a line lies between two
\* newlines (or the ends of the text) and holds none.
SomeLineMatches(text) ==
    \E a \in 1..(Len(text) + 1) :
        /\ a = 1 \/ Char(text, a - 1) = "\n"
        /\ LET b == FindChar(text, "\n", a) - 1
           IN  GrammarLine(SubSeq(text, a, b))

\* The registry of the specification.
RegisteredNames == {"model_memory", "apply_conversion"}

ObservationMessage(k) == Message("user", "Observation: " \o calls[k].value)

\* C1 as stated: a finished query(question, N) has issued at most N
\* collaborator calls, for every N.
C1_AtMostNCalls == pc \in Terminal => modelCalls <= max_turns

\* C1 amended: query(question, N) issues at most max(N, 0) collaborator
\* calls.
C1_AtMostMaxN0Calls == modelCalls <= (IF max_turns > 0 THEN max_turns ELSE 0)

C1_Witness == pc = "EXHAUSTED" /\ max_turns >= 2 /\ modelCalls = max_turns

\* C2: when the assistant response of a turn has no line matching the action
\* grammar, query moves to ANSWERED in that turn, without a handler call and
\* without a further collaborator call, and returns the whole conversation,
\* whose last message is that response; nothing happens after ANSWERED.
C2_NoActionAnswers ==
    /\ []((/\ Last(messages).role = "assistant"
           /\ pc # "PARSING"
           /\ ~SomeLineMatches(Last(messages).content))
          => /\ pc \in {"PARSED", "ANSWERED"}
             /\ pc = "ANSWERED" =>
                   /\ returned = messages
                   /\ error = ""
                   /\ modelCalls = turn
                   /\ \A i \in 1..Len(calls) : calls[i].turn < turn)
    /\ [][(pc = "PARSED" /\ ~SomeLineMatches(Last(messages).content))
          => (pc' = "ANSWERED" /\ UNCHANGED <<messages, modelCalls, calls>>)]_vars
    /\ [][pc # "ANSWERED"]_vars

C2_Witness ==
    /\ pc = "ANSWERED"
    /\ turn >= 2
    /\ Last(returned) = Message("assistant", R_Indented)

\* C3: when the parsed action name is not registered, query raises the
\* unknown-action error (ValueError): no handler runs in that turn, no
\* collaborator call follows and no conversation is returned.
C3_UnknownActionFatal ==
    /\ []((pc = "RAISED" /\ error = "ValueError")
          => /\ actions # <<>>
             /\ actions[1][1] \notin RegisteredNames
             /\ returned = <<>>
             /\ modelCalls = turn
             /\ \A i \in 1..Len(calls) : calls[i].turn < turn)
    /\ [][(pc = "PARSED" /\ actions # <<>> /\ actions[1][1] \notin RegisteredNames)
          => /\ pc' = "RAISED"
             /\ error' = "ValueError"
             /\ UNCHANGED <<messages, modelCalls, calls, returned>>]_vars
    /\ [][pc # "RAISED"]_vars

C3_Witness ==
    /\ pc = "RAISED"
    /\ error = "ValueError"
    /\ turn >= 2
    /\ actions[1][1] = "get_conversion_rate"

\* C4: when max_turns iterations have completed, each with a registered
\* action, query moves to EXHAUSTED and returns, with no error, the
\* conversation accumulated so far.
C4_ExhaustedReturns ==
    /\ [](pc = "EXHAUSTED"
          => /\ error = ""
             /\ returned = messages
             /\ turn = (IF max_turns > 0 THEN max_turns ELSE 0)
             /\ Len(messages) = 1 + 2 * turn
             /\ Len(calls) = turn
             /\ \A i \in 1..Len(calls) :
                    calls[i].name \in RegisteredNames /\ calls[i].raised = "")
    /\ [][(pc = "LOOP" /\ turn >= max_turns)
          => (pc' = "EXHAUSTED" /\ returned' = messages /\ error' = "")]_vars
    /\ [][pc # "EXHAUSTED"]_vars

C4_Witness == pc = "EXHAUSTED" /\ max_turns >= 2 /\ Len(calls) = max_turns

\* C5: the user message that opens the turn after the k-th handler call is
\* Observation: followed by what that handler returned, whole and unchanged.
C5_ObservationVerbatim ==
    \A k \in 1..Len(calls) :
        /\ calls[k].turn = k
        /\ Len(messages) >= 2 * k + 2 => messages[2 * k + 2] = ObservationMessage(k)

C5_Witness ==
    /\ Len(messages) >= 4
    /\ calls[1].arg = "Furlongs to Feet"
    /\ messages[4].content = "Observation: No conversion rate found for Furlongs to Feet"

\* The exceptions raised by the core itself or by a handler.
CoreErrors == {"ValueError", "NameError", "ZeroDivisionError", "TypeError"}

\* C6: when a collaborator call fails, query ends with the collaborator's
\* own error, distinct from every error of the core; the call is not
\* retried, and no collaborator call or handler call follows.
C6_ModelFailureFatal ==
    /\ [](modelCalls <= turn)
    /\ []((pc = "RAISED" /\ Last(messages).role = "user")
          => /\ error \in ModelErrors
             /\ error \notin CoreErrors
             /\ returned = <<>>
             /\ modelCalls = turn
             /\ Len(calls) = turn - 1)
    /\ [][(pc = "AWAITING_MODEL" /\ pc' = "RAISED")
          => /\ error' \in ModelErrors
             /\ modelCalls' = modelCalls + 1
             /\ UNCHANGED <<messages, calls, returned>>]_vars
    /\ [][pc = "RAISED" => pc' = "RAISED" /\ UNCHANGED <<modelCalls, calls>>]_vars

C6_Witness == pc = "RAISED" /\ error \in ModelErrors /\ turn >= 2

\* C7: apply_conversion never raises.
C7_NeverRaises ==
    \A i \in 1..Len(calls) : calls[i].name = "apply_conversion" => calls[i].raised = ""

\* The strings by which the handlers report a content error.
IsContentError(s) ==
    \/ s \in {"Error: Invalid number of parameters",
              "Error: Please provide valid numbers",
              "Error: Invalid conversion rate format"}
    \/ StartsWith(s, "No conversion rate found for ")

\* C8: after a handler returned a content-error string in turn k, query does
\* not abort on it: any error comes from a later collaborator call, and if
\* turns remain the next collaborator call is issued, its user message being
\* the Observation with that string.
C8_ContentErrorsContinue ==
    \A k \in 1..Len(calls) :
        (calls[k].raised = "" /\ IsContentError(calls[k].value))
        => /\ error # "" => modelCalls > k
           /\ (pc \in Terminal /\ k < max_turns) => modelCalls > k
           /\ modelCalls > k =>
                 /\ Len(messages) >= 2 * k + 2
                 /\ messages[2 * k + 2] = ObservationMessage(k)

C8_Witness ==
    /\ pc \in Terminal
    /\ modelCalls = 3
    /\ calls[1].value = "No conversion rate found for Furlongs to Feet"
    /\ calls[2].value = "Error: Invalid number of parameters"

\* The table of the specification.
MemoryTable ==
    [u \in {"meters to feet", "kilometers to miles", "kilograms to pounds",
            "celsius to fahrenheit"} |->
        CASE u = "meters to feet" -> "3.28084"
          [] u = "kilometers to miles" -> "0.621371"
          [] u = "kilograms to pounds" -> "2.20462"
          [] u = "celsius to fahrenheit" -> "9/5,32"]

\* u is key up to the case of its letters.
SameUpToCase(u, key) ==
    /\ Len(u) = Len(key)
    /\ \A i \in 1..Len(key) :
          \/ Char(u, i) = Char(key, i)
          \/ /\ Char(key, i) \in CharsOf(LowerLetters)
             /\ Char(u, i) = Char(UpperLetters, IndexIn(LowerLetters, Char(key, i)))

\* C9: model_memory returns the rate of the table for each of the four keys
\* in any letter case, and for every other input a not-found string that
\* contains the input as it was given.
C9_MemoryLookup ==
    \A i \in 1..Len(calls) :
        calls[i].name = "model_memory"
        => /\ calls[i].raised = ""
           /\ \A key \in DOMAIN MemoryTable :
                 SameUpToCase(calls[i].arg, key) => calls[i].value = MemoryTable[key]
           /\ (\A key \in DOMAIN MemoryTable : ~SameUpToCase(calls[i].arg, key))
                 => /\ Contains(calls[i].value, calls[i].arg)
                    /\ \A key \in DOMAIN MemoryTable : calls[i].value # MemoryTable[key]

C9_Witness ==
    /\ Len(calls) = 1
    /\ calls[1].arg = "Kilometers to Miles"
    /\ calls[1].value = "0.621371"

\* C10: with the collaborator of the recorded Example 1 and the default
\* max_turns, query dispatches model_memory, then apply_conversion, and ends
\* ANSWERED after the third completion, whose text contains 32.81 feet.
C10_Case ==
    /\ collab = "example1"
    /\ question = "Convert 10 meters to feet"
    /\ max_turns = DefaultMaxTurns

C10_Ended ==
    /\ pc = "ANSWERED"
    /\ turn = 3
    /\ modelCalls = 3
    /\ turn <= DefaultMaxTurns
    /\ Len(calls) = 2
    /\ calls[1].name = "model_memory"
    /\ calls[1].value = "3.28084"
    /\ calls[2].name = "apply_conversion"
    /\ calls[2].value = "10.0 meters = 32.81 feet"
    /\ Last(returned).role = "assistant"
    /\ Contains(Last(returned).content, "32.81 feet")

C10_RecordedSession ==
    /\ []((C10_Case /\ pc \in Terminal /\ error \notin ModelErrors) => C10_Ended)
    /\ (C10_Case ~> (pc = "ANSWERED" \/ error \in ModelErrors))

C10_Witness == C10_Case /\ C10_Ended

\* The number of iterations query(question, n) may start.
IterationBound == IF max_turns > 0 THEN max_turns ELSE 0

\* The three ways a query ends exclude each other, and each is final.
EndsOneWay ==
    /\ pc = "ANSWERED" => (error = "" /\ returned = messages /\ actions = <<>>)
    /\ pc = "EXHAUSTED" => (error = "" /\ returned = messages
                            /\ ~LoopContinues(turn, max_turns))
    /\ pc = "RAISED" => (error # "" /\ returned = <<>>)
    /\ pc \notin Terminal => (error = "" /\ returned = <<>>)

\* C11 as stated: every fair run of query reaches ANSWERED, EXHAUSTED or a
\* fatal failure, exactly one of them, after at most max_turns iterations.
C11_TerminatesWithinN ==
    /\ <>(pc \in Terminal)
    /\ [](EndsOneWay /\ turn <= max_turns)
    /\ [][pc \notin Terminal]_vars

\* C11 amended: every fair run of query reaches ANSWERED, EXHAUSTED or a
\* fatal failure, exactly one of them and for good, after at most
\* max(max_turns, 0) iterations.
C11_Terminates ==
    /\ <>(pc \in Terminal)
    /\ [](EndsOneWay /\ turn <= IterationBound)
    /\ [][pc \notin Terminal]_vars

\* The answer comes in the last iteration the budget allows.
C11_Witness ==
    pc = "ANSWERED" /\ max_turns = MaxTurns /\ turn = max_turns /\ Len(calls) = turn - 1

\* The conversation of query s holds the system prompt, then per turn k the
\* user message of s (its question, or the observation of its own call k-1)
\* and a completion its own collaborator gave to its call k; its calls were
\* parsed from its own responses; what it returned is its own conversation.
OwnConversation(s) ==
    /\ s.messages[1] = Message("system", SystemPrompt)
    /\ \A i \in 2..Len(s.messages) :
          IF i % 2 = 0
          THEN s.messages[i] =
                 Message("user", IF i = 2 THEN s.question
                                 ELSE "Observation: " \o s.calls[(i \div 2) - 1].value)
          ELSE /\ s.messages[i].role = "assistant"
               /\ s.messages[i].content \in Completions(s.collab, i \div 2)
    /\ \A k \in 1..Len(s.calls) :
          /\ Len(s.messages) >= 2 * k + 1
          /\ Contains(s.messages[2 * k + 1].content,
                      "Action: " \o s.calls[k].name \o ": " \o s.calls[k].arg)
    /\ s.returned # <<>> => s.returned = s.messages

\* C12: of two queries run one after the other or interleaved, each has a
\* conversation made of the system prompt and its own questions, responses
\* and observations only, and returns that conversation; the registry is
\* what the process defined, at every moment.
C12_SessionsIsolated ==
    /\ OwnConversation(Running)
    /\ OwnConversation(parked)
    /\ known_actions = RegisteredNames

\* Both queries are in the middle of their second turn.
C12_Witness ==
    /\ pc = "DISPATCHING" /\ turn = 2
    /\ parked.pc = "APPENDING" /\ parked.turn = 2

\* The reverse unit table of the specification.
ReverseUnits ==
    [r \in {"3.28084", "0.621371", "2.20462"} |->
        CASE r = "3.28084" -> [source |-> "meters", target |-> "feet"]
          [] r = "0.621371" -> [source |-> "kilometers", target |-> "miles"]
          [] r = "2.20462" -> [source |-> "kilograms", target |-> "pounds"]]

EndsWith(s, suffix) ==
    Len(s) >= Len(suffix) /\ SubSeq(s, Len(s) - Len(suffix) + 1, Len(s)) = suffix

\* The call has a 2-field argument whose fields are both numbers.
TwoNumericFields(c) ==
    /\ c.name = "apply_conversion"
    /\ Len(split[c.arg, ","]) = 2
    /\ float(split[c.arg, ","][1]).ok
    /\ float(split[c.arg, ","][2]).ok

\* The result reads: value, source unit, equals sign, product, target unit.
NamesUnits(value, source, target) ==
    /\ Contains(value, " " \o source \o " = ")
    /\ EndsWith(value, " " \o target)
    /\ \E i \in 1..Len(value) :
          /\ float(SubSeq(value, 1, i - 1)).ok
          /\ SubSeq(value, i, i + Len(source) + 3) = " " \o source \o " = "
          /\ float(SubSeq(value, i + Len(source) + 4, Len(value) - Len(target) - 1)).ok

\* C13: for a 2-field argument with two numeric fields, apply_conversion
\* returns a result that names the units of the reverse table when the rate
\* field is one of its three literals, and the word units on both sides
\* when the rate field is anything else.
C13_UnitsFromRate ==
    \A i \in 1..Len(calls) :
        TwoNumericFields(calls[i])
        => LET rate_field == split[calls[i].arg, ","][1]
           IN  /\ calls[i].raised = ""
               /\ rate_field \in DOMAIN ReverseUnits
                    => NamesUnits(calls[i].value, ReverseUnits[rate_field].source,
                                  ReverseUnits[rate_field].target)
               /\ rate_field \notin DOMAIN ReverseUnits
                    => NamesUnits(calls[i].value, "units", "units")

C13_Witness ==
    /\ Len(calls) = 1
    /\ calls[1].arg = "0.621371,10"
    /\ calls[1].value = "10.0 kilometers = 6.21 miles"

\* A rate field that is a known rate with a blank before it: units.
C13_WitnessOtherText ==
    /\ Len(calls) = 1
    /\ calls[1].arg = " 3.28084,10"
    /\ calls[1].value = "10.0 units = 32.81 units"

\* The line of text that starts at position a.
LineAt(text, a) == SubSeq(text, a, FindChar(text, "\n", a) - 1)

\* The positions at which the lines of text that match the grammar start.
MatchingLineStarts(text) ==
    { a \in 1..(Len(text) + 1) :
        /\ a = 1 \/ Char(text, a - 1) = "\n"
        /\ GrammarLine(LineAt(text, a)) }

FirstMatchingLine(text) ==
    LineAt(text, CHOOSE a \in MatchingLineStarts(text) :
                    \A b \in MatchingLineStarts(text) : a <= b)

\* The directive a name and an argument were parsed from.
Directive(name, arg) == "Action: " \o name \o ": " \o arg

\* C14: once the response of a turn is parsed, the parser has yielded no
\* action when no line of it matches the grammar, and otherwise one action
\* per matching line with the match of the first matching line in front;
\* the handler called in turn k was given the first matching line of the
\* k-th response and no handler is called for a later line (one call per
\* turn at most).
C14_FirstMatchWins ==
    /\ pc \in {"PARSED", "DISPATCHING"}
         => /\ Len(actions) = Cardinality(MatchingLineStarts(result))
            /\ actions # <<>>
                 => Directive(actions[1][1], actions[1][2]) = FirstMatchingLine(result)
    /\ Len(calls) <= turn
    /\ \A k \in 1..Len(calls) :
          /\ calls[k].turn = k
          /\ Directive(calls[k].name, calls[k].arg)
                = FirstMatchingLine(messages[2 * k + 1].content)

\* Two matching lines in the first response, the first one dispatched and
\* the loop gone on.
C14_Witness ==
    /\ pc = "LOOP"
    /\ Len(calls) = 1
    /\ messages[3].content = R_TwoActions
    /\ calls[1].name = "model_memory"
    /\ calls[1].arg = "celsius to fahrenheit"

\* The action grammar of the specification: the marker at column 0, a name
\* of n >= 1 characters of [A-Za-z0-9_], a colon, a space, the argument.
GrammarNameChars ==
    CharsOf("abcdefghijklmnopqrstuvwxyz") \cup CharsOf("ABCDEFGHIJKLMNOPQRSTUVWXYZ")
        \cup CharsOf("0123456789") \cup {"_"}

GrammarName(l, n) ==
    /\ Len(l) >= 8
    /\ SubSeq(l, 1, 8) = "Action: "
    /\ Len(l) >= 8 + n + 2
    /\ \A i \in 9..(8 + n) : Char(l, i) \in GrammarNameChars
    /\ SubSeq(l, 9 + n, 10 + n) = ": "

MatchesGrammar(l) == \E n \in 1..Len(l) : GrammarName(l, n)

\* The name and the argument the grammar reads on a matching line.
GrammarParse(l) ==
    LET n == CHOOSE n \in 1..Len(l) : GrammarName(l, n)
    IN  <<SubSeq(l, 9, 8 + n), SubSeq(l, 11 + n, Len(l))>>

GrammarLineStarts(text) ==
    { a \in 1..(Len(text) + 1) :
        /\ a = 1 \/ Char(text, a - 1) = "\n"
        /\ MatchesGrammar(LineAt(text, a)) }

\* C15: the lines of a response the parser takes for actions are exactly
\* the lines that match the action grammar (marker at column 0, a name of
\* one or more characters of [A-Za-z0-9_], colon, space, argument), and for
\* each the parsed name is the identifier and the parsed argument the whole
\* rest of the line.
C15_ActionGrammar ==
    pc = "PARSED"
    => /\ Len(actions) = Cardinality(GrammarLineStarts(result))
       /\ \A a \in GrammarLineStarts(result) :
             \E j \in 1..Len(actions) : actions[j] = GrammarParse(LineAt(result, a))

\* The response of collaborator call k has been appended, parsed and its
\* action dispatched, the handler having returned.
Settled(k) ==
    /\ Len(messages) >= 2 * k + 1
    /\ messages[2 * k + 1] = Message("assistant", result)
    /\ actions # <<>>
    /\ Contains(result, Directive(actions[1][1], actions[1][2]))
    /\ Len(calls) = k
    /\ calls[k] = [turn |-> k, name |-> actions[1][1], arg |-> actions[1][2],
                   raised |-> "", value |-> calls[k].value]
    /\ next_prompt = "Observation: " \o calls[k].value

\* C16: a collaborator call is issued only when the response of the call
\* before it has been appended as the assistant message, parsed, and its
\* action dispatched with the handler returned; while a response is being
\* appended, parsed or dispatched, no collaborator call is issued.
C16_StrictSequencing ==
    /\ [][(modelCalls' # modelCalls)
           => /\ modelCalls' = modelCalls + 1
              /\ pc = "AWAITING_MODEL"
              /\ modelCalls >= 1 => Settled(modelCalls)]_vars
    /\ [][(pc \in {"APPENDING", "PARSING", "PARSED", "DISPATCHING"})
           => modelCalls' = modelCalls]_vars
    /\ [](Len(calls) <= modelCalls /\ modelCalls <= Len(calls) + 1)

\* The third response has come, after two handler calls.
C16_Witness ==
    /\ pc = "APPENDING"
    /\ modelCalls = 3
    /\ Len(calls) = 2
    /\ calls[2].name = "apply_conversion"

\* C17: in every state of a session the first message of the conversation
\* is the system message with the prompt given at construction, and no step
\* changes or removes it; the conversation query returns begins with it.
C17_SystemPromptFirst ==
    /\ [](/\ Len(messages) >= 1
          /\ messages[1] = [role |-> "system", content |-> SystemPrompt]
          /\ \A i \in 2..Len(messages) : messages[i].role # "system")
    /\ [][Len(messages') >= 1 /\ messages'[1] = messages[1]]_vars
    /\ [](returned # <<>> => returned[1] = [role |-> "system", content |-> SystemPrompt])

\* Three turns on, a handler having run twice, the system message leads.
C17_Witness ==
    /\ Len(messages) = 7
    /\ Len(calls) = 2
    /\ messages[1].role = "system"
    /\ messages[7].role = "assistant"

\* The collaborator calls that came back with a response.
ResponsesReceived ==
    modelCalls - (IF pc = "RAISED" /\ error \in ModelErrors THEN 1 ELSE 0)

\* C18: every step of query that touches the conversation appends exactly
\* one message to it, the user message with the prompt of the turn or the
\* assistant message with the response, and leaves the messages before it
\* as they were, in their order, so that the conversation holds the system
\* message, one user message per turn and one assistant message per
\* response; what query returns is the conversation in that order.
C18_AppendOnly ==
    /\ [][messages' # messages
           => /\ Len(messages') = Len(messages) + 1
              /\ SubSeq(messages', 1, Len(messages)) = messages
              /\ \/ messages'[Len(messages')] = [role |-> "user", content |-> next_prompt]
                 \/ messages'[Len(messages')] = [role |-> "assistant", content |-> result']]_vars
    /\ [](Len(messages) = 1 + turn + ResponsesReceived
            - (IF pc = "APPENDING" THEN 1 ELSE 0))
    /\ [](returned # <<>> => returned = messages)

\* The conversation returned after two turns: five messages in append order.
C18_Witness ==
    /\ pc = "EXHAUSTED"
    /\ Len(returned) = 5
    /\ returned[2].content = question
    /\ returned[4].role = "user"
    /\ returned[4].content = next_prompt
    /\ returned[5].content = result

\* C19: in every turn k the user message (the question in turn 1, the
\* observation of turn k-1 afterwards) is in the conversation before the
\* collaborator is called, the collaborator is given the whole conversation
\* up to and including that message, and the step after the call appends
\* the response as the assistant message right behind it.
C19_TurnOrder ==
    /\ [](/\ Len(requests) = modelCalls
          /\ \A k \in 1..Len(requests) :
                /\ Len(messages) >= 2 * k
                /\ requests[k] = SubSeq(messages, 1, 2 * k)
                /\ messages[2 * k] =
                      [role |-> "user",
                       content |-> IF k = 1 THEN question
                                   ELSE "Observation: " \o calls[k - 1].value]
                /\ Len(messages) > 2 * k => messages[2 * k + 1].role = "assistant")
    /\ [][modelCalls' # modelCalls
           => /\ messages[Len(messages)] = [role |-> "user", content |-> next_prompt]
              /\ messages' = messages]_vars
    /\ [][pc = "APPENDING"
           => /\ Len(messages) = 2 * modelCalls
              /\ messages' = Append(messages, [role |-> "assistant", content |-> result])]_vars

\* The second call was given the four messages before it, the observation
\* last, and its response is the fifth message.
C19_Witness ==
    /\ pc = "PARSING"
    /\ Len(requests) = 2
    /\ Len(requests[2]) = 4
    /\ requests[2][4].content = "Observation: 3.28084"
    /\ Len(messages) = 5
    /\ messages[5].content = result

\* What the handler registered as model_memory gives for an argument: a
\* rate of the table, or the not-found text with the argument as given.
MemoryResult(arg, value) ==
    \/ \E key \in DOMAIN MemoryTable : SameUpToCase(arg, key) /\ value = MemoryTable[key]
    \/ value = "No conversion rate found for " \o arg

\* What the handler registered as apply_conversion gives: an equation
\* between two quantities, or one of its three error texts.
ConversionResult(value) ==
    \/ value \in {"Error: Invalid number of parameters",
                  "Error: Please provide valid numbers",
                  "Error: Invalid conversion rate format"}
    \/ \E i \in 1..Len(value) :
          /\ float(SubSeq(value, 1, i - 1)).ok
          /\ Char(value, i) \in {" ", "°"}
          /\ Contains(value, " = ")

\* C20: when the action name parsed in turn k is registered, exactly one
\* handler is called in that turn: the one registered under the parsed
\* name, with the parsed argument as it stands in the response, and what it
\* returns is the observation of the turn, unchanged.
C20_DispatchFidelity ==
    /\ [](/\ Len(calls) <= turn
          /\ (pc = "LOOP" /\ turn >= 1) => Len(calls) = turn
          /\ \A k \in 1..Len(calls) :
                /\ calls[k].turn = k
                /\ calls[k].name \in RegisteredNames
                /\ Contains(messages[2 * k + 1].content,
                            Directive(calls[k].name, calls[k].arg))
                /\ calls[k].raised = ""
                     => /\ calls[k].name = "model_memory"
                             => MemoryResult(calls[k].arg, calls[k].value)
                        /\ calls[k].name = "apply_conversion"
                             => ConversionResult(calls[k].value)
                        /\ Len(messages) >= 2 * k + 2
                             => messages[2 * k + 2].content
                                    = "Observation: " \o calls[k].value)
    /\ [][calls' # calls
           => /\ pc = "DISPATCHING"
              /\ actions[1][1] \in RegisteredNames
              /\ \E v \in {calls'[Len(calls')]} :
                    /\ calls' = Append(calls, v)
                    /\ v.name = actions[1][1]
                    /\ v.arg = actions[1][2]
                    /\ v.raised = "" => next_prompt' = "Observation: " \o v.value]_vars

\* Both handlers have run, each under its own name.
C20_Witness ==
    /\ pc = "LOOP"
    /\ Len(calls) = 2
    /\ calls[1] = [turn |-> 1, name |-> "model_memory", arg |-> "meters to feet",
                   raised |-> "", value |-> "3.28084"]
    /\ calls[2] = [turn |-> 2, name |-> "apply_conversion", arg |-> "3.28084, 10",
                   raised |-> "", value |-> "10.0 meters = 32.81 feet"]

\* The three roles of the specification.
RecognizedRoles == {"system", "user", "assistant"}

\* C21: a call of add_message either appends one message of a recognized
\* role, whatever its content, or (the role not being one of system, user,
\* assistant) fails with InvalidRoleError and leaves the conversation as it
\* was.
C21_InvalidRoleRejected ==
    [][\/ /\ Len(messages') = Len(messages) + 1
          /\ SubSeq(messages', 1, Len(messages)) = messages
          /\ messages'[Len(messages')].role \in RecognizedRoles
          /\ error' = error
       \/ /\ messages' = messages
          /\ error' = "InvalidRoleError"]_vars

\* The positions of the Observation messages of a conversation.
ObservationPositions(conv) ==
    { i \in 1..Len(conv) :
        conv[i].role = "user" /\ StartsWith(conv[i].content, "Observation: ") }

\* The result of handler call k is the Observation message after the
\* response of turn k.
ObservationReturned(k) ==
    /\ Len(returned) >= 2 * k + 2
    /\ returned[2 * k + 2] = [role |-> "user", content |-> "Observation: " \o calls[k].value]

\* C22 as stated: when query returns normally, the returned conversation
\* has the result of every handler call as an Observation message, as many
\* Observation messages as handler calls.
C22_EveryResultReturned ==
    pc \in {"ANSWERED", "EXHAUSTED"}
    => /\ \A k \in 1..Len(calls) : ObservationReturned(k)
       /\ Cardinality(ObservationPositions(returned)) = Len(calls)

\* C22 amended: when query returns with a final answer, the returned
\* conversation has the result of every handler call as an Observation
\* message; when it returns with the turn budget used up, it has the result
\* of every handler call but the last one, whose Observation was the prompt
\* of a turn that never started.
C22_ResultsReturnedButLast ==
    /\ pc = "ANSWERED"
         => /\ \A k \in 1..Len(calls) : ObservationReturned(k)
            /\ Cardinality(ObservationPositions(returned)) = Len(calls)
    /\ pc = "EXHAUSTED"
         => /\ \A k \in 1..(Len(calls) - 1) : ObservationReturned(k)
            /\ Len(returned) = 1 + 2 * Len(calls)
            /\ Cardinality(ObservationPositions(returned))
                  = (IF Len(calls) = 0 THEN 0 ELSE Len(calls) - 1)
            /\ Len(calls) >= 1
                  => next_prompt = "Observation: " \o calls[Len(calls)].value

\* The budget of two turns is used up with two handler calls made: the
\* conversation returned has one Observation.
C22_Witness ==
    /\ pc = "EXHAUSTED"
    /\ max_turns = 2
    /\ Len(calls) = 2
    /\ Cardinality(ObservationPositions(returned)) = 1
    /\ next_prompt = "Observation: 10.0 meters = 32.81 feet"

\* C23: when query returns normally after k collaborator calls, the
\* conversation returned has 1 + 2k messages, the system message and then k
\* pairs of a user message and an assistant message, so that for k >= 1 the
\* last message is an assistant message; and at no time have there been
\* more handler calls than collaborator calls.
C23_RoleAlternation ==
    /\ pc \in {"ANSWERED", "EXHAUSTED"}
         => /\ Len(returned) = 1 + 2 * modelCalls
            /\ returned[1].role = "system"
            /\ \A j \in 1..modelCalls :
                  /\ returned[2 * j].role = "user"
                  /\ returned[2 * j + 1].role = "assistant"
            /\ modelCalls >= 1 => returned[Len(returned)].role = "assistant"
    /\ Len(calls) <= modelCalls

\* A final answer at the third call: seven messages, two handler calls.
C23_Witness ==
    /\ pc = "ANSWERED"
    /\ modelCalls = 3
    /\ Len(returned) = 7
    /\ Len(calls) = 2
    /\ returned[7].content = R_Answer

\* C24: with max_turns <= 0, query calls neither the collaborator nor a
\* handler and never appends the question: the conversation stays the
\* system message alone, and query returns it, without an error.
C24_NoTurns ==
    /\ [](max_turns <= 0
           => /\ modelCalls = 0
              /\ requests = <<>>
              /\ calls = <<>>
              /\ messages = <<[role |-> "system", content |-> SystemPrompt]>>
              /\ error = ""
              /\ pc \in {"LOOP", "EXHAUSTED"}
              /\ pc = "EXHAUSTED" => returned = messages)
    /\ (max_turns <= 0) ~> (pc = "EXHAUSTED" /\ returned = messages)

\* query(question, -1) has returned.
C24_Witness ==
    /\ max_turns < 0
    /\ pc = "EXHAUSTED"
    /\ returned = <<[role |-> "system", content |-> SystemPrompt]>>
    /\ turn = 0

====
